---- MODULE Spec2Model ----
(***************************************************************************)
(* Model of renumics.spotlight:                                            *)
(*   - SpotlightApp (backend/types.py): the data_source setter,            *)
(*     _update_issues and its completion callback _on_issues_ready,        *)
(*     interleaved with the worker pool that runs the analysis tasks;      *)
(*   - Viewer and the module-level show/close/viewers (viewer.py) with the *)
(*     process-wide registry _VIEWERS.                                     *)
(* TaskManager, find_issues and Server are not part of the sources at hand *)
(* and are modelled from their documented contract.                        *)
(***************************************************************************)
EXTENDS Integers, Sequences, FiniteSets, TLC

VARIABLES
    \* ---- SpotlightApp (backend/types.py) ----
    data_source,        \* SpotlightApp._data_source (None or a dataset)
    issues,             \* SpotlightApp.issues
    websocket_manager,  \* TRUE iff SpotlightApp.websocket_manager is set
    pc,                 \* position of the control thread in the setter
    table,              \* local `table` of _update_issues
    tasks,              \* the analysis tasks created so far, in order
    nassign,            \* number of data_source assignments so far
    update,             \* what the assignment in progress has done so far
    \* ---- viewer.py ----
    _VIEWERS,           \* the module-level registry (sequence of viewers)
    viewer_objs,        \* the Viewer objects created so far
    servers,            \* the Server objects created so far
    last_call,          \* the last call of the public API with its outcome
    closing             \* the threads inside Viewer.close, by statement

appvars == <<data_source, issues, websocket_manager, pc, table, tasks, nassign,
            update>>
viewvars == <<_VIEWERS, viewer_objs, servers, last_call, closing>>
vars == <<data_source, issues, websocket_manager, pc, table, tasks, nassign,
          update,
          _VIEWERS, viewer_objs, servers, last_call, closing>>

\* ---------------------------------------------------------------------
\* Bounds
\* ---------------------------------------------------------------------
MaxData == 2
MaxAssign == 2
MaxViewers == 2
MaxServers == 3
MaxPort == 2
MaxFrontends == 2
MaxClosers == 2

None == 0
DataSources == 1..MaxData

\* ---------------------------------------------------------------------
\* SpotlightApp
\* ---------------------------------------------------------------------

\* find_issues(table, table.dtype): the analysis result of a dataset
find_issues(t) == <<t>>

Terminal(s) == s \in {"done", "failed", "cancelled"}

\* bookkeeping of the assignment in progress (or the last one): whether a
\* websocket manager was present when it began, and what it did so far
NewUpdate(new) ==
    [new |-> new, ws |-> websocket_manager, cleared |-> FALSE,
     broadcasts |-> 0, created |-> 0, callbacks |-> 0, returned |-> FALSE,
     cb_ran |-> FALSE]

\* SpotlightApp.__init__
AppInit ==
    /\ data_source = None
    /\ issues = <<>>
    /\ websocket_manager = FALSE
    /\ pc = "idle"
    /\ table = None
    /\ tasks = <<>>
    /\ nassign = 0
    /\ update = [NewUpdate(None) EXCEPT !.ws = FALSE]

\* the server attaches a websocket manager to the application
SetWebsocketManager ==
    /\ ~websocket_manager
    /\ websocket_manager' = TRUE
    /\ UNCHANGED <<data_source, issues, pc, table, tasks, nassign, update>>
    /\ UNCHANGED viewvars

\* data_source.setter: self._data_source = new_data_source
DataSourceSet(new_data_source) ==
    /\ pc = "idle"
    /\ nassign < MaxAssign
    /\ data_source' = new_data_source
    /\ pc' = "update_issues"
    /\ nassign' = nassign + 1
    /\ update' = NewUpdate(new_data_source)
    /\ UNCHANGED <<issues, websocket_manager, table, tasks>>

\* an assignment to data_source, the viewers left aside
DataSourceSetter(new_data_source) ==
    /\ DataSourceSet(new_data_source)
    /\ UNCHANGED viewvars

\* _update_issues: table = self.data_source; self.issues = []
UpdateIssuesClear ==
    /\ pc = "update_issues"
    /\ table' = data_source
    /\ issues' = <<>>
    /\ pc' = "broadcast"
    /\ update' = [update EXCEPT !.cleared = TRUE]
    /\ UNCHANGED <<data_source, websocket_manager, tasks, nassign>>
    /\ UNCHANGED viewvars

\* as UpdateIssuesBroadcast, without the early return on an absent table
UpdateIssuesBroadcast_NoReturn ==
    /\ pc = "broadcast"
    /\ update' = [update EXCEPT
                    !.broadcasts = IF websocket_manager THEN @ + 1 ELSE @]
    /\ pc' = "create_task"
    /\ UNCHANGED <<data_source, issues, websocket_manager, table, tasks,
                   nassign>>
    /\ UNCHANGED viewvars

\* _update_issues: broadcast if a websocket manager is present; return if
\* table is None
UpdateIssuesBroadcast ==
    /\ pc = "broadcast"
    /\ update' = [update EXCEPT
                    !.broadcasts = IF websocket_manager THEN @ + 1 ELSE @,
                    !.returned = (table = None)]
    /\ pc' = IF table = None THEN "idle" ELSE "create_task"
    /\ UNCHANGED <<data_source, issues, websocket_manager, table, tasks,
                   nassign>>
    /\ UNCHANGED viewvars

\* TaskManager.cancel of one task: a task that is already executing ignores
\* the cancellation
Cancel(task) ==
    IF task.state = "pending"
    THEN [task EXCEPT !.state = "cancelled", !.superseded = TRUE]
    ELSE [task EXCEPT !.superseded = TRUE]

\* TaskManager.create_task: a task of the same name that is not terminal is
\* cancelled first, then the new task is submitted to the pool
CreateTask(ts, tbl) ==
    Append([i \in 1..Len(ts) |-> Cancel(ts[i])],
           [ds |-> tbl, state |-> "pending", cb |-> "none",
            superseded |-> FALSE, assigned |-> FALSE, broadcasts |-> 0,
            ws |-> FALSE])

\* _update_issues: task = self.task_manager.create_task(find_issues, ...)
UpdateIssuesCreateTask ==
    /\ pc = "create_task"
    /\ tasks' = CreateTask(tasks, table)
    /\ pc' = "add_done_callback"
    /\ update' = [update EXCEPT !.created = @ + 1]
    /\ UNCHANGED <<data_source, issues, websocket_manager, table, nassign>>
    /\ UNCHANGED viewvars

\* _update_issues: task.future.add_done_callback(_on_issues_ready)
UpdateIssuesAddDoneCallback ==
    /\ pc = "add_done_callback"
    /\ tasks' = [tasks EXCEPT ![Len(tasks)].cb = "registered"]
    /\ pc' = "idle"
    /\ update' = [update EXCEPT !.callbacks = @ + 1, !.returned = TRUE]
    /\ UNCHANGED <<data_source, issues, websocket_manager, table, nassign>>
    /\ UNCHANGED viewvars

\* the worker pool starts executing a task
TaskStart(t) ==
    /\ tasks[t].state = "pending"
    /\ tasks' = [tasks EXCEPT ![t].state = "running"]
    /\ UNCHANGED <<data_source, issues, websocket_manager, pc, table,
                   nassign, update>>
    /\ UNCHANGED viewvars

\* the worker pool finishes a task: find_issues returned or raised
TaskFinish(t, ok) ==
    /\ tasks[t].state = "running"
    /\ tasks' = [tasks EXCEPT ![t].state = IF ok THEN "done" ELSE "failed"]
    /\ UNCHANGED <<data_source, issues, websocket_manager, pc, table,
                   nassign, update>>
    /\ UNCHANGED viewvars

\* as OnIssuesReadyTry, with a CancelledError handled like a result: the
\* issues are reset and the else clause runs
OnIssuesReadyTry_CancelledAsResult(t) ==
    /\ tasks[t].cb = "registered"
    /\ Terminal(tasks[t].state)
    /\ issues' = CASE tasks[t].state = "done" -> find_issues(tasks[t].ds)
                    [] tasks[t].state = "cancelled" -> <<>>
                    [] OTHER -> issues
    /\ tasks' = [tasks EXCEPT
                    ![t].cb = CASE tasks[t].state = "done" -> "else"
                                [] tasks[t].state = "cancelled" -> "else"
                                [] OTHER -> "raised",
                    ![t].assigned = (tasks[t].state = "done"),
                    ![t].ws = websocket_manager]
    /\ update' = [update EXCEPT !.cb_ran = update.returned]
    /\ UNCHANGED <<data_source, websocket_manager, pc, table, nassign>>
    /\ UNCHANGED viewvars

\* _on_issues_ready, the try statement: self.issues = future.result();
\* a CancelledError is swallowed, any other exception leaves the callback
OnIssuesReadyTry(t) ==
    /\ tasks[t].cb = "registered"
    /\ Terminal(tasks[t].state)
    /\ issues' = IF tasks[t].state = "done"
                 THEN find_issues(tasks[t].ds)
                 ELSE issues
    /\ tasks' = [tasks EXCEPT
                    ![t].cb = CASE tasks[t].state = "done" -> "else"
                                [] tasks[t].state = "cancelled" -> "finished"
                                [] OTHER -> "raised",
                    ![t].assigned = (tasks[t].state = "done"),
                    ![t].ws = websocket_manager]
    /\ update' = [update EXCEPT !.cb_ran = update.returned]
    /\ UNCHANGED <<data_source, websocket_manager, pc, table, nassign>>
    /\ UNCHANGED viewvars

\* as OnIssuesReadyElse, without the broadcast
OnIssuesReadyElse_NoBroadcast(t) ==
    /\ tasks[t].cb = "else"
    /\ tasks' = [tasks EXCEPT ![t].cb = "finished"]
    /\ UNCHANGED <<data_source, issues, websocket_manager, pc, table,
                   nassign, update>>
    /\ UNCHANGED viewvars

\* _on_issues_ready, the else clause: broadcast if a websocket manager is
\* present
OnIssuesReadyElse(t) ==
    /\ tasks[t].cb = "else"
    /\ tasks' = [tasks EXCEPT
                    ![t].cb = "finished",
                    ![t].broadcasts = IF websocket_manager THEN @ + 1 ELSE @]
    /\ UNCHANGED <<data_source, issues, websocket_manager, pc, table,
                   nassign, update>>
    /\ UNCHANGED viewvars

\* ---------------------------------------------------------------------
\* viewer.py
\* ---------------------------------------------------------------------
\* Viewers and servers are identified by their position in viewer_objs and
\* servers.  A requested port of Auto stands for "auto", a port argument of
\* Last for "last".  Layout, browser, file browsing and custom issues are
\* passed through to the server and not modelled.  Viewers are created by
\* show only.
Auto == 0
Last == 0
Ports == 1..MaxPort
Folder == 1
Dataset == 2

\* the client channels that can connect to a server
Frontends == 1..MaxFrontends

\* the view of the state an operation works on, with the exception raised
\* ("" if none), the broadcasts made to the frontends and the values
\* assigned to a server's data source so far
State(V, vo, sv, err) ==
    [V |-> V, vo |-> vo, sv |-> sv, err |-> err, sent |-> <<>>,
     assigned |-> <<>>]

Range(seq) == {seq[i] : i \in 1..Len(seq)}

\* list.remove: remove the first occurrence
Remove(seq, x) ==
    LET i == CHOOSE k \in 1..Len(seq) :
                 seq[k] = x /\ \A j \in 1..(k - 1) : seq[j] # x
    IN  SubSeq(seq, 1, i - 1) \o SubSeq(seq, i + 1, Len(seq))

\* Viewer.__init__
NewViewerObj(port) ==
    [_requested_port |-> port, _dataset_or_folder |-> None,
     _server |-> None]

\* Server.__init__
NewServer(port) ==
    [port |-> port, state |-> "created", stops |-> 0, datasource |-> <<>>,
     frontends |-> {}]

\* a port is free if no running server of this process is bound to it
PortFree(sv, p) ==
    \A i \in 1..Len(sv) : sv[i].state = "running" => sv[i].port # p

\* Server.start: binds the listener, resolving port 0 to the free port `eph`
\* chosen by the system; fails if the port is not available
ServerStart(sv, sid, eph) ==
    LET p == IF sv[sid].port = 0 THEN eph ELSE sv[sid].port
    IN  IF PortFree(sv, p)
        THEN [sv EXCEPT ![sid].port = p, ![sid].state = "running"]
        ELSE sv

\* Server.stop: the listener is torn down with its channels and its port
\* released
ServerStop(sv, sid) ==
    [sv EXCEPT ![sid].state = "stopped", ![sid].stops = @ + 1,
               ![sid].port = 0, ![sid].datasource = <<>>,
               ![sid].frontends = {}]

\* Server.refresh_frontends: one broadcast of a refresh message, delivered
\* to every channel connected to the server
RefreshFrontends(st, sid) ==
    [st EXCEPT !.sent = Append(@, [server |-> sid,
                                   to |-> st.sv[sid].frontends])]

\* Viewer.port
ViewerPort(st, v) ==
    IF st.vo[v]._server = None THEN None ELSE st.sv[st.vo[v]._server].port

\* as InitServer, with the viewer registered before the server is started
InitServer_RegistersBeforeStart(st, v, eph) ==
    IF st.vo[v]._server # None
    THEN st
    ELSE LET port == IF st.vo[v]._requested_port = Auto
                     THEN 0 ELSE st.vo[v]._requested_port
             sid == Len(st.sv) + 1
             vo1 == [st.vo EXCEPT ![v]._server = sid]
             sv1 == ServerStart(Append(st.sv, NewServer(port)), sid, eph)
         IN  State(IF v \in Range(st.V) THEN st.V ELSE Append(st.V, v),
                   vo1, sv1,
                   IF sv1[sid].state # "running" THEN "BindError" ELSE "")

\* as InitServer, without the early return when a server is held
InitServer_AlwaysNew(st, v, eph) ==
    LET port == IF st.vo[v]._requested_port = Auto
                THEN 0 ELSE st.vo[v]._requested_port
        sid == Len(st.sv) + 1
        vo1 == [st.vo EXCEPT ![v]._server = sid]
        sv1 == ServerStart(Append(st.sv, NewServer(port)), sid, eph)
    IN  IF sv1[sid].state # "running"
        THEN State(st.V, vo1, sv1, "BindError")
        ELSE State(IF v \in Range(st.V) THEN st.V ELSE Append(st.V, v),
                   vo1, sv1, "")

\* as InitServer, with the server always bound to port 0
InitServer_IgnoresRequestedPort(st, v, eph) ==
    IF st.vo[v]._server # None
    THEN st
    ELSE LET sid == Len(st.sv) + 1
             vo1 == [st.vo EXCEPT ![v]._server = sid]
             sv1 == ServerStart(Append(st.sv, NewServer(0)), sid, eph)
         IN  IF sv1[sid].state # "running"
             THEN State(st.V, vo1, sv1, "BindError")
             ELSE State(IF v \in Range(st.V) THEN st.V ELSE Append(st.V, v),
                        vo1, sv1, "")

\* Viewer._init_server
InitServer(st, v, eph) ==
    IF st.vo[v]._server # None
    THEN st
    ELSE LET port == IF st.vo[v]._requested_port = Auto
                     THEN 0 ELSE st.vo[v]._requested_port
             sid == Len(st.sv) + 1
             vo1 == [st.vo EXCEPT ![v]._server = sid]
             sv1 == ServerStart(Append(st.sv, NewServer(port)), sid, eph)
         IN  IF sv1[sid].state # "running"
             THEN State(st.V, vo1, sv1, "BindError")
             ELSE State(IF v \in Range(st.V) THEN st.V ELSE Append(st.V, v),
                        vo1, sv1, "")

\* as CloseNoWait, without the removal from the registry
CloseNoWait_NoRemove(st, v) ==
    IF v \notin Range(st.V) \/ st.vo[v]._server = None
    THEN st
    ELSE State(st.V,
               [st.vo EXCEPT ![v]._server = None],
               ServerStop(st.sv, st.vo[v]._server), "")

\* as CloseNoWait, with the stopped server kept by the viewer
CloseNoWait_KeepsServer(st, v) ==
    IF v \notin Range(st.V) \/ st.vo[v]._server = None
    THEN st
    ELSE State(Remove(st.V, v), st.vo,
               ServerStop(st.sv, st.vo[v]._server), "")

\* Viewer.close(wait=False)
CloseNoWait(st, v) ==
    IF v \notin Range(st.V) \/ st.vo[v]._server = None
    THEN st
    ELSE State(Remove(st.V, v),
               [st.vo EXCEPT ![v]._server = None],
               ServerStop(st.sv, st.vo[v]._server), "")

\* as ViewerCloseOp, with the interrupt raised again without closing
ViewerCloseOp_InterruptLeaks(st, v, wait, interrupt) ==
    IF v \notin Range(st.V) \/ st.vo[v]._server = None
    THEN st
    ELSE IF wait /\ interrupt
         THEN [st EXCEPT !.err = "KeyboardInterrupt"]
         ELSE CloseNoWait(st, v)

\* Viewer.close: with wait, the wait for the disconnect of the frontends
\* either returns or is interrupted (KeyboardInterrupt); when interrupted,
\* the viewer is closed without waiting and the interrupt is raised again
ViewerCloseOp(st, v, wait, interrupt) ==
    IF v \notin Range(st.V) \/ st.vo[v]._server = None
    THEN st
    ELSE IF wait /\ interrupt
         THEN [CloseNoWait(st, v) EXCEPT !.err = "KeyboardInterrupt"]
         ELSE CloseNoWait(st, v)

\* as ResolveWait, with "auto" blocking in an interactive session
ResolveWait_AutoInverted(wait, in_interactive_session) ==
    IF wait = "auto" THEN in_interactive_session ELSE wait = "True"

\* Viewer.show, the resolution of `wait` ("True", "False" or "auto")
ResolveWait(wait, in_interactive_session) ==
    IF wait = "auto" THEN ~in_interactive_session ELSE wait = "True"

\* Viewer.show, the assignment of the data source (create_datasource of
\* the viewer's dataset, whose dtype is not modelled): a folder is served
\* without a data source
AssignDataSource(st, v) ==
    LET me == st.vo[v]
        datasource == IF me._dataset_or_folder = Folder
                      THEN <<>>
                      ELSE <<me._dataset_or_folder>>
    IN  [st EXCEPT !.sv[me._server].datasource = datasource,
                   !.assigned = Append(@, datasource)]

\* as Refresh, without the test for a server
Refresh_NoServerCheck(st, v) ==
    IF st.vo[v]._server # None
    THEN RefreshFrontends(st, st.vo[v]._server)
    ELSE [st EXCEPT !.err = "AttributeError"]

\* Viewer.refresh
Refresh(st, v) ==
    IF st.vo[v]._server # None
    THEN RefreshFrontends(st, st.vo[v]._server)
    ELSE st

\* as ViewerShowOp, with the data source assigned and the frontends
\* refreshed whatever the arguments
ViewerShowOp_AlwaysAssigns(st, v, dataset_or_folder, dtype, wait, interactive, eph, interrupt) ==
    LET me == st.vo[v]
        vo1 == [st.vo EXCEPT
                  ![v]._dataset_or_folder =
                        IF dataset_or_folder # None THEN dataset_or_folder
                        ELSE IF me._dataset_or_folder = None THEN Folder
                        ELSE me._dataset_or_folder]
        st1 == InitServer([st EXCEPT !.vo = vo1], v, eph)
        st2 == Refresh(AssignDataSource(st1, v), v)
    IN  IF st1.err # ""
        THEN st1
        ELSE IF st2.sv[st2.vo[v]._server].state # "running"
        THEN [st2 EXCEPT !.err = "StartupError"]
        ELSE IF ResolveWait(wait, interactive)
        THEN [ViewerCloseOp(st2, v, TRUE, interrupt)
                EXCEPT !.sent = st2.sent, !.assigned = st2.assigned]
        ELSE st2

\* Viewer.show; `dtype` is None or a type mapping, of which only the
\* presence is modelled
ViewerShowOp(st, v, dataset_or_folder, dtype, wait, interactive, eph, interrupt) ==
    LET me == st.vo[v]
        vo1 == [st.vo EXCEPT
                  ![v]._dataset_or_folder =
                        IF dataset_or_folder # None THEN dataset_or_folder
                        ELSE IF me._dataset_or_folder = None THEN Folder
                        ELSE me._dataset_or_folder]
        st1 == InitServer([st EXCEPT !.vo = vo1], v, eph)
        st2 == IF dataset_or_folder # None \/ dtype # None
               THEN Refresh(AssignDataSource(st1, v), v)
               ELSE st1
    IN  IF st1.err # ""
        THEN st1
        ELSE IF st2.sv[st2.vo[v]._server].state # "running"
        THEN [st2 EXCEPT !.err = "StartupError"]
        ELSE IF ResolveWait(wait, interactive)
        THEN [ViewerCloseOp(st2, v, TRUE, interrupt)
                EXCEPT !.sent = st2.sent, !.assigned = st2.assigned]
        ELSE st2

\* show, the lookup of a viewer to reuse: the loop variable `viewer` keeps
\* the last registered viewer when no port matches
FindViewer(st, port) ==
    IF port = Auto \/ st.V = <<>>
    THEN None
    ELSE IF \E i \in 1..Len(st.V) : ViewerPort(st, st.V[i]) = port
    THEN st.V[CHOOSE i \in 1..Len(st.V) :
                /\ ViewerPort(st, st.V[i]) = port
                /\ \A j \in 1..(i - 1) : ViewerPort(st, st.V[j]) # port]
    ELSE st.V[Len(st.V)]

Current == State(_VIEWERS, viewer_objs, servers, "")

\* the record of the last call (or event of a frontend): the viewer it was
\* called on or returned, the port argument, the resolved `wait`, the
\* exception raised ("" if none) and the broadcasts made to the frontends
\* during the call
Call(op, v, port, wait, err) ==
    [op |-> op, viewer |-> v, port |-> port, wait |-> wait, err |-> err,
     tick |-> 1 - last_call.tick, site |-> <<"", FALSE>>, sent |-> <<>>]

\* the record of a call of show, which also keeps `wait` as passed and
\* whether the session is interactive
ShowCall(op, v, port, wait, interactive, err) ==
    [Call(op, v, port, ResolveWait(wait, interactive), err)
        EXCEPT !.site = <<wait, interactive>>]

\* the outcome of a call that runs without overlapping another
Apply(st) ==
    /\ _VIEWERS' = st.V
    /\ viewer_objs' = st.vo
    /\ servers' = st.sv
    /\ UNCHANGED closing

\* the threads that call Viewer.close
Closers == 1..MaxClosers

\* a thread that is not inside Viewer.close, with the viewer of its last call,
\* whether another close of that viewer completed while it waited, and the
\* exception its last call raised ("" if none)
Returned(v, overlapped, err) ==
    [pc |-> "idle", viewer |-> v, interrupted |-> FALSE,
     overlapped |-> overlapped, err |-> err]

\* the system picks `eph` for a server bound to port 0: a free port if there
\* is one
Ephemeral(eph) ==
    PortFree(servers, eph) \/ \A p \in Ports : ~PortFree(servers, p)

\* inputs that the call does not look at are fixed to one value: the
\* system's choice of a port unless the call is to bind a server to port 0,
\* the interrupt unless the call waits, and the dtype when a dataset is
\* passed as well
Relevant(binds_auto, eph, interrupt, wait, d, dtype) ==
    /\ eph # 1 => binds_auto
    /\ interrupt => wait
    /\ dtype # None => d = None

BindsAuto(vo) == vo._server = None /\ vo._requested_port = Auto

\* the call sites of show: `wait` as passed and whether the session is
\* interactive (__main__ has no __file__)
CallSites ==
    {<<"True", TRUE>>, <<"False", FALSE>>, <<"auto", TRUE>>,
     <<"auto", FALSE>>}

ViewInit ==
    /\ _VIEWERS = <<>>
    /\ viewer_objs = <<>>
    /\ servers = <<>>
    /\ last_call = [op |-> "", viewer |-> 0, port |-> 0, wait |-> FALSE,
                    err |-> "", tick |-> 0, site |-> <<"", FALSE>>,
                    sent |-> <<>>]
    /\ closing = [t \in Closers |-> Returned(0, FALSE, "")]

\* viewers()
Viewers == _VIEWERS

\* viewer.show(...) on a Viewer the caller holds, as far as the viewers are
\* concerned
ViewerShowCall(v, dataset_or_folder, dtype, wait, interactive, eph, interrupt) ==
    /\ viewer_objs[v]._server = None => Len(servers) < MaxServers
    /\ BindsAuto(viewer_objs[v]) => Ephemeral(eph)
    /\ Relevant(BindsAuto(viewer_objs[v]), eph, interrupt,
                ResolveWait(wait, interactive), dataset_or_folder, dtype)
    /\ LET st == ViewerShowOp(Current, v, dataset_or_folder, dtype, wait,
                              interactive, eph, interrupt)
       IN  /\ Apply(st)
           /\ last_call' = [ShowCall("Viewer.show", v, 0, wait, interactive,
                                     st.err) EXCEPT !.sent = st.sent]

\* viewer.show(...) on a Viewer the caller holds, the application of its
\* server left aside
ViewerShow(v, dataset_or_folder, dtype, wait, interactive, eph, interrupt) ==
    /\ ViewerShowCall(v, dataset_or_folder, dtype, wait, interactive, eph,
                      interrupt)
    /\ UNCHANGED appvars

\* the viewer whose server runs the application at hand
Served == 1

\* the value that the application is given for a server's data source
AppDataSource(datasource) ==
    IF datasource = <<>> THEN None ELSE datasource[1]

\* viewer.show(...) without blocking on the served viewer: each assignment
\* to the server's data source is an assignment to the application's
\* data_source, whose setter starts _update_issues in the caller's thread
ServedShow(dataset_or_folder, dtype) ==
    /\ Served \in 1..Len(viewer_objs)
    /\ pc = "idle"
    /\ ViewerShowCall(Served, dataset_or_folder, dtype, "False", FALSE, 1,
                      FALSE)
    /\ LET st == ViewerShowOp(Current, Served, dataset_or_folder, dtype,
                              "False", FALSE, 1, FALSE)
       IN  IF st.assigned # <<>>
           THEN DataSourceSet(AppDataSource(st.assigned[Len(st.assigned)]))
           ELSE UNCHANGED appvars

\* Viewer(host, port): a viewer that holds no server and is not registered
NewViewer(port) ==
    /\ Len(viewer_objs) < MaxViewers
    /\ viewer_objs' = Append(viewer_objs, NewViewerObj(port))
    /\ last_call' = Call("Viewer", Len(viewer_objs) + 1, port, FALSE, "")
    /\ UNCHANGED <<_VIEWERS, servers, closing>>
    /\ UNCHANGED appvars

\* viewer.refresh() on a Viewer the caller holds
ViewerRefresh(v) ==
    /\ LET st == Refresh(Current, v)
       IN  /\ Apply(st)
           /\ last_call' = [Call("Viewer.refresh", v, 0, FALSE, st.err)
                                EXCEPT !.sent = st.sent]
    /\ UNCHANGED appvars

\* the number of channels connected to the servers
Connected(sv) ==
    Cardinality({p \in (1..Len(sv)) \X Frontends : p[2] \in sv[p[1]].frontends})

\* a client opens a channel to a running server
FrontendConnect(sid, c) ==
    /\ servers[sid].state = "running"
    /\ c \notin servers[sid].frontends
    /\ Connected(servers) < MaxFrontends
    /\ servers' = [servers EXCEPT ![sid].frontends = @ \cup {c}]
    /\ last_call' = Call("frontend", 0, 0, FALSE, "")
    /\ UNCHANGED <<_VIEWERS, viewer_objs, closing>>
    /\ UNCHANGED appvars

\* a client closes its channel
FrontendDisconnect(sid, c) ==
    /\ c \in servers[sid].frontends
    /\ servers' = [servers EXCEPT ![sid].frontends = @ \ {c}]
    /\ last_call' = Call("frontend", 0, 0, FALSE, "")
    /\ UNCHANGED <<_VIEWERS, viewer_objs, closing>>
    /\ UNCHANGED appvars

\* viewer.close(wait) on a Viewer the caller holds
ViewerClose(v, wait, interrupt) ==
    /\ interrupt => wait
    /\ LET st == ViewerCloseOp(Current, v, wait, interrupt)
       IN  /\ Apply(st)
           /\ last_call' = Call("Viewer.close", v, 0, wait, st.err)
    /\ UNCHANGED appvars

\* show(dataset_or_folder, host, port, ..., wait, dtype, ...)
ModuleShow(dataset_or_folder, port, dtype, wait, interactive, eph, interrupt) ==
    LET found == FindViewer(Current, port)
        v == IF found = None THEN Len(viewer_objs) + 1 ELSE found
        st0 == IF found = None
               THEN [Current EXCEPT
                        !.vo = Append(viewer_objs, NewViewerObj(port))]
               ELSE Current
    IN  /\ found = None => Len(viewer_objs) < MaxViewers
        /\ st0.vo[v]._server = None => Len(servers) < MaxServers
        /\ BindsAuto(st0.vo[v]) => Ephemeral(eph)
        /\ Relevant(BindsAuto(st0.vo[v]), eph, interrupt,
                    ResolveWait(wait, interactive), dataset_or_folder, dtype)
        /\ LET st == ViewerShowOp(st0, v, dataset_or_folder, dtype, wait,
                                  interactive, eph, interrupt)
           IN  /\ Apply(st)
               /\ last_call' = [ShowCall("show",
                                         IF st.err = "" THEN v ELSE 0, port,
                                         wait, interactive, st.err)
                                    EXCEPT !.sent = st.sent]
        /\ UNCHANGED appvars

\* as ModuleClose, without the error for "last" on an empty registry
ModuleClose_SilentOnEmpty(port) ==
    LET matches == {i \in 1..Len(_VIEWERS) :
                        ViewerPort(Current, _VIEWERS[i]) = port}
        none == IF port = Last THEN _VIEWERS = <<>> ELSE matches = {}
        v == IF port = Last
             THEN _VIEWERS[Len(_VIEWERS)]
             ELSE _VIEWERS[CHOOSE i \in matches : \A j \in matches : i <= j]
        st == IF none THEN Current ELSE CloseNoWait(Current, v)
    IN  /\ Apply(st)
        /\ last_call' = Call("close", 0, port, FALSE,
                             IF none /\ port # Last
                             THEN "ViewerNotFoundError" ELSE st.err)
        /\ UNCHANGED appvars

\* as ModuleClose, with "last" closing the first registered viewer
ModuleClose_LastClosesFirst(port) ==
    LET matches == {i \in 1..Len(_VIEWERS) :
                        ViewerPort(Current, _VIEWERS[i]) = port}
        none == IF port = Last THEN _VIEWERS = <<>> ELSE matches = {}
        v == IF port = Last
             THEN _VIEWERS[1]
             ELSE _VIEWERS[CHOOSE i \in matches : \A j \in matches : i <= j]
        st == IF none THEN Current ELSE CloseNoWait(Current, v)
    IN  /\ Apply(st)
        /\ last_call' = Call("close", 0, port, FALSE,
                             IF none THEN "ViewerNotFoundError" ELSE st.err)
        /\ UNCHANGED appvars

\* as ModuleClose, with the last registered viewer closed whatever the port
ModuleClose_PortClosesLast(port) ==
    LET matches == {i \in 1..Len(_VIEWERS) :
                        ViewerPort(Current, _VIEWERS[i]) = port}
        none == IF port = Last THEN _VIEWERS = <<>> ELSE matches = {}
        v == _VIEWERS[Len(_VIEWERS)]
        st == IF none THEN Current ELSE CloseNoWait(Current, v)
    IN  /\ Apply(st)
        /\ last_call' = Call("close", 0, port, FALSE,
                             IF none THEN "ViewerNotFoundError" ELSE st.err)
        /\ UNCHANGED appvars

\* close(port)
ModuleClose(port) ==
    LET matches == {i \in 1..Len(_VIEWERS) :
                        ViewerPort(Current, _VIEWERS[i]) = port}
        none == IF port = Last THEN _VIEWERS = <<>> ELSE matches = {}
        v == IF port = Last
             THEN _VIEWERS[Len(_VIEWERS)]
             ELSE _VIEWERS[CHOOSE i \in matches : \A j \in matches : i <= j]
        st == IF none THEN Current ELSE CloseNoWait(Current, v)
    IN  /\ Apply(st)
        /\ last_call' = Call("close", 0, port, FALSE,
                             IF none THEN "ViewerNotFoundError" ELSE st.err)
        /\ UNCHANGED appvars

\* Viewer.close statement by statement, for calls that overlap.
\* Entry of close(wait): the two tests, then the wait or the removal
CloseEnter(t, v, wait) ==
    /\ closing[t].pc = "idle"
    /\ closing' = [closing EXCEPT ![t] =
            IF v \notin Range(_VIEWERS) \/ viewer_objs[v]._server = None
            THEN Returned(v, FALSE, "")
            ELSE [Returned(v, FALSE, "") EXCEPT
                    !.pc = IF wait THEN "wait" ELSE "remove"]]
    /\ UNCHANGED <<_VIEWERS, viewer_objs, servers, last_call>>
    /\ UNCHANGED appvars

\* self._server.wait_for_frontend_disconnect() returns
CloseWaitReturn(t) ==
    /\ closing[t].pc = "wait"
    /\ closing' = [closing EXCEPT ![t].pc = "remove"]
    /\ UNCHANGED <<_VIEWERS, viewer_objs, servers, last_call>>
    /\ UNCHANGED appvars

\* the wait is interrupted: self.close(wait=False) is entered, and the
\* interrupt is raised again when that call returns
CloseWaitInterrupt(t) ==
    /\ closing[t].pc = "wait"
    /\ LET v == closing[t].viewer
       IN  closing' = [closing EXCEPT ![t] =
                IF v \notin Range(_VIEWERS) \/ viewer_objs[v]._server = None
                THEN Returned(v, @.overlapped, "KeyboardInterrupt")
                ELSE [@ EXCEPT !.pc = "remove", !.interrupted = TRUE]]
    /\ UNCHANGED <<_VIEWERS, viewer_objs, servers, last_call>>
    /\ UNCHANGED appvars

\* _VIEWERS.remove(self): ValueError if self is not in the list
CloseRemove(t) ==
    /\ closing[t].pc = "remove"
    /\ LET v == closing[t].viewer
       IN  IF v \in Range(_VIEWERS)
           THEN /\ _VIEWERS' = Remove(_VIEWERS, v)
                /\ closing' = [closing EXCEPT ![t].pc = "stop"]
           ELSE /\ _VIEWERS' = _VIEWERS
                /\ closing' = [closing EXCEPT ![t] =
                        Returned(v, @.overlapped, "ValueError")]
    /\ UNCHANGED <<viewer_objs, servers, last_call>>
    /\ UNCHANGED appvars

\* self._server.stop(): AttributeError if self._server is None
CloseStop(t) ==
    /\ closing[t].pc = "stop"
    /\ LET v == closing[t].viewer
           sid == viewer_objs[v]._server
       IN  IF sid # None
           THEN /\ servers' = ServerStop(servers, sid)
                /\ closing' = [closing EXCEPT ![t].pc = "clear"]
           ELSE /\ servers' = servers
                /\ closing' = [closing EXCEPT ![t] =
                        Returned(v, @.overlapped, "AttributeError")]
    /\ UNCHANGED <<_VIEWERS, viewer_objs, last_call>>
    /\ UNCHANGED appvars

\* self._server = None, and the return of close; the threads that wait in a
\* close of the same viewer have been overlapped by a complete close
CloseClear(t) ==
    /\ closing[t].pc = "clear"
    /\ LET v == closing[t].viewer
       IN  /\ viewer_objs' = [viewer_objs EXCEPT ![v]._server = None]
           /\ closing' = [u \in Closers |->
                IF u = t
                THEN Returned(v, closing[t].overlapped,
                              IF closing[t].interrupted
                              THEN "KeyboardInterrupt" ELSE "")
                ELSE IF closing[u].pc = "wait" /\ closing[u].viewer = v
                THEN [closing[u] EXCEPT !.overlapped = TRUE]
                ELSE closing[u]]
    /\ UNCHANGED <<_VIEWERS, servers, last_call>>
    /\ UNCHANGED appvars

Init == AppInit /\ ViewInit

Next ==
    \/ SetWebsocketManager
    \/ \E d \in DataSources \cup {None} : DataSourceSetter(d)
    \/ UpdateIssuesClear
    \/ UpdateIssuesBroadcast
    \/ UpdateIssuesCreateTask
    \/ UpdateIssuesAddDoneCallback
    \/ \E t \in 1..Len(tasks) : TaskStart(t)
    \/ \E t \in 1..Len(tasks) : \E ok \in BOOLEAN : TaskFinish(t, ok)
    \/ \E t \in 1..Len(tasks) : OnIssuesReadyTry(t)
    \/ \E t \in 1..Len(tasks) : OnIssuesReadyElse(t)

\* the application object with its worker pool
Spec == Init /\ [][Next]_vars

\* the arguments of show that are enumerated: show without a dataset and
\* with one (a dtype alone is passed under RefreshSpec), the interrupt of a
\* call that waits, and the system's port for a server bound to port 0
ShowData ==
    {<<None, None>>, <<Dataset, None>>}

Interrupts(site) ==
    IF ResolveWait(site[1], site[2]) THEN BOOLEAN ELSE {FALSE}

EphemeralPorts(binds_auto) == IF binds_auto THEN Ports ELSE {1}

ViewerNext ==
    \/ \E v \in 1..Len(viewer_objs), dd \in ShowData, site \in CallSites :
        \E eph \in EphemeralPorts(BindsAuto(viewer_objs[v])),
           interrupt \in Interrupts(site) :
            ViewerShow(v, dd[1], dd[2], site[1], site[2], eph, interrupt)
    \/ \E v \in 1..Len(viewer_objs), wait \in BOOLEAN,
           interrupt \in BOOLEAN : ViewerClose(v, wait, interrupt)
    \/ \E dd \in ShowData, port \in Ports \cup {Auto}, site \in CallSites :
        \E eph \in EphemeralPorts(port = Auto),
           interrupt \in Interrupts(site) :
            ModuleShow(dd[1], port, dd[2], site[1], site[2], eph, interrupt)
    \/ \E port \in Ports \cup {Last} : ModuleClose(port)

\* the viewers of one process, driven by one control thread
ViewerSpec == Init /\ [][ViewerNext]_vars

\* the viewers and their frontends: viewers are constructed with an explicit
\* port, shown with or without a dataset or a dtype, refreshed and closed
\* without blocking, and clients connect and disconnect
RefreshNext ==
    \/ \E port \in Ports : NewViewer(port)
    \/ \E v \in 1..Len(viewer_objs), dd \in ShowData \cup {<<None, 1>>} :
            ViewerShow(v, dd[1], dd[2], "False", FALSE, 1, FALSE)
    \/ \E v \in 1..Len(viewer_objs) : ViewerClose(v, FALSE, FALSE)
    \/ \E v \in 1..Len(viewer_objs) : ViewerRefresh(v)
    \/ \E sid \in 1..Len(servers), c \in Frontends : FrontendConnect(sid, c)
    \/ \E sid \in 1..Len(servers), c \in Frontends :
            FrontendDisconnect(sid, c)

RefreshSpec == Init /\ [][RefreshNext]_vars

\* viewers opened by show without blocking and closed by threads whose calls
\* of Viewer.close overlap
CloseNext ==
    \/ \E port \in Ports \cup {Auto} :
        \E eph \in EphemeralPorts(port = Auto) :
            ModuleShow(None, port, None, "False", FALSE, eph, FALSE)
    \/ \E t \in Closers, v \in 1..Len(viewer_objs), wait \in BOOLEAN :
            CloseEnter(t, v, wait)
    \/ \E t \in Closers : CloseWaitReturn(t)
    \/ \E t \in Closers : CloseWaitInterrupt(t)
    \/ \E t \in Closers : CloseRemove(t)
    \/ \E t \in Closers : CloseStop(t)
    \/ \E t \in Closers : CloseClear(t)

CloseSpec == Init /\ [][CloseNext]_vars

\* one viewer constructed and shown without blocking, with or without a
\* dataset, a folder or a dtype, and the application of its server with its
\* worker pool
ServeNext ==
    \/ viewer_objs = <<>> /\ NewViewer(1)
    \/ \E dd \in ShowData \cup {<<None, 1>>, <<Folder, None>>} :
            ServedShow(dd[1], dd[2])
    \/ SetWebsocketManager
    \/ UpdateIssuesClear
    \/ UpdateIssuesBroadcast
    \/ UpdateIssuesCreateTask
    \/ UpdateIssuesAddDoneCallback
    \/ \E t \in 1..Len(tasks) : TaskStart(t)
    \/ \E t \in 1..Len(tasks) : \E ok \in BOOLEAN : TaskFinish(t, ok)
    \/ \E t \in 1..Len(tasks) : OnIssuesReadyTry(t)
    \/ \E t \in 1..Len(tasks) : OnIssuesReadyElse(t)

ServeSpec == Init /\ [][ServeNext]_vars

\* ---------------------------------------------------------------------
\* Properties of SpotlightApp (checked under Spec)
\* ---------------------------------------------------------------------

\* every task is terminal and every completion callback has run
AllTasksSettled ==
    \A t \in 1..Len(tasks) :
        /\ Terminal(tasks[t].state)
        /\ tasks[t].cb \in {"finished", "raised"}

LastTask == tasks[Len(tasks)]

\* the control thread is outside the setter, after at least one assignment
Settled == pc = "idle" /\ nassign > 0

\* C1: once the control thread is idle and all scheduled tasks are terminal
\* with their callbacks run, issues is the analysis result of the last
\* assigned dataset (empty if the last assignment was None); while the last
\* task is not yet terminal, issues is empty.
C1_FinalIssuesOfLastDataset ==
    Settled =>
        /\ (AllTasksSettled /\ data_source = None) => issues = <<>>
        /\ (AllTasksSettled /\ data_source # None /\ LastTask.state = "done")
                => issues = find_issues(data_source)
        /\ (data_source # None /\ ~Terminal(LastTask.state))
                => issues = <<>>

\* C2: between assignments, issues is either empty or the analysis result
\* of the currently assigned data source (a superseded task's result is
\* never written).
C2_NoStaleIssues ==
    pc = "idle" =>
        \/ issues = <<>>
        \/ data_source # None /\ issues = find_issues(data_source)

\* C3: an assignment clears issues, then broadcasts once (if a websocket
\* manager is present), both before its task is created; and from its
\* return until a completion callback runs issues is empty.
C3_ClearedUntilCallback ==
    /\ (pc \in {"create_task", "add_done_callback"} \/ update.created > 0)
            => /\ update.cleared
               /\ update.broadcasts <= 1
               /\ update.ws => update.broadcasts = 1
    /\ (pc = "broadcast") => (update.cleared /\ update.broadcasts = 0)
    /\ (nassign > 0 /\ update.returned /\ ~update.cb_ran) => issues = <<>>

\* C4: an assignment of None clears issues, broadcasts the notification
\* (if a websocket manager is present), creates no task and registers no
\* callback.
C4_NoneSchedulesNothing ==
    [][/\ (pc = "update_issues" /\ pc' = "broadcast") => issues' = <<>>
       /\ (nassign' > 0 /\ update'.new = None) =>
            /\ update'.created = 0
            /\ update'.callbacks = 0
            /\ pc' \notin {"create_task", "add_done_callback"}
            /\ update'.returned =>
                    /\ update'.cleared
                    /\ update'.broadcasts <= 1
                    /\ update'.ws => update'.broadcasts = 1
       /\ (update.new = None /\ nassign' = nassign) => Len(tasks') = Len(tasks)
      ]_vars

\* a None assignment has returned with a websocket manager present while a
\* task of an earlier dataset exists
C4_Witness ==
    /\ nassign > 1
    /\ update.new = None
    /\ update.returned
    /\ update.ws
    /\ Len(tasks) > 0

C6_CancelledCallbackIsNoop ==
    [][\A t \in 1..Len(tasks) :
        tasks[t].state = "cancelled" =>
            /\ (tasks[t].cb = "registered" /\ tasks'[t].cb # "registered")
                    => /\ issues' = issues
                       /\ tasks'[t].cb = "finished"
            /\ tasks'[t].broadcasts = 0
            /\ ~tasks'[t].assigned
      ]_vars

\* the callback of a cancelled task has run while issues was not empty
C6_Witness ==
    \E t \in 1..Len(tasks) :
        /\ tasks[t].state = "cancelled"
        /\ tasks[t].cb = "finished"
        /\ issues # <<>>

\* C7: when the task of the last assignment fails with an error other than
\* cancellation, issues is left empty and its completion sends no broadcast.
C7_FailedLeavesIssuesEmpty ==
    \A t \in 1..Len(tasks) :
        (/\ pc = "idle"
         /\ t = Len(tasks)
         /\ ~tasks[t].superseded
         /\ tasks[t].state = "failed"
         /\ tasks[t].cb = "raised")
            => /\ issues = <<>>
               /\ tasks[t].broadcasts = 0

\* ---------------------------------------------------------------------
\* Properties of the viewers (checked under ViewerSpec)
\* ---------------------------------------------------------------------

\* the positions of the registry whose viewer is bound to port p
BoundTo(p) ==
    {i \in 1..Len(_VIEWERS) : ViewerPort(Current, _VIEWERS[i]) = p}

\* the registry, the viewers and the servers after the step
After == State(_VIEWERS', viewer_objs', servers', "")

\* the step is a call of the public API
IsCall == last_call'.tick # last_call.tick

\* a call of show that did not block and returned a viewer
ShowReturned(c) == c.op = "show" /\ c.err = "" /\ ~c.wait

\* C8: two calls of show in a row with the same explicit port, both
\* returning without blocking, return the same viewer and leave exactly one
\* registry entry bound to that port; two such calls with port "auto" return
\* two distinct registered viewers bound to distinct ports.
C8_ShowTwiceSamePort ==
    [][(/\ IsCall
        /\ ShowReturned(last_call)
        /\ ShowReturned(last_call')
        /\ last_call'.port = last_call.port) =>
            IF last_call.port # Auto
            THEN /\ last_call'.viewer = last_call.viewer
                 /\ Cardinality(BoundTo(last_call.port)') = 1
            ELSE /\ last_call'.viewer # last_call.viewer
                 /\ {last_call.viewer, last_call'.viewer}
                        \subseteq Range(_VIEWERS')
                 /\ ViewerPort(After, last_call.viewer)
                        # ViewerPort(After, last_call'.viewer)
      ]_vars

\* C9: Viewer.close(wait=False) on a registered viewer removes it from the
\* registry and stops its server; on a viewer that is not registered it
\* changes nothing; it raises no error and no server is ever stopped twice.
C9_CloseThenCloseAgain ==
    [][/\ (IsCall /\ last_call'.op = "Viewer.close" /\ ~last_call'.wait) =>
            LET v == last_call'.viewer
                sid == viewer_objs[v]._server
            IN  /\ last_call'.err = ""
                /\ v \notin Range(_VIEWERS')
                /\ IF v \in Range(_VIEWERS)
                   THEN /\ servers[sid].state = "running"
                        /\ servers'[sid].state = "stopped"
                        /\ servers'[sid].stops = 1
                        /\ viewer_objs'[v]._server = None
                        /\ \A o \in 1..Len(servers) :
                                o # sid => servers'[o] = servers[o]
                   ELSE /\ _VIEWERS' = _VIEWERS
                        /\ servers' = servers
                        /\ viewer_objs' = viewer_objs
       /\ \A o \in 1..Len(servers') : servers'[o].stops <= 1
      ]_vars

\* Viewer.close(wait=False) was called on a viewer that was shown before
\* and is now closed
C9_Witness ==
    /\ last_call.op = "Viewer.close"
    /\ ~last_call.wait
    /\ last_call.viewer \notin Range(_VIEWERS)
    /\ viewer_objs[last_call.viewer]._server = None
    /\ \E o \in 1..Len(servers) : servers[o].stops = 1

\* C10: close("last") on an empty registry and close(port) with no
\* registered viewer bound to the port raise ViewerNotFoundError and leave
\* the registry, the viewers and the servers unchanged.
C10_CloseNotFound ==
    [][(IsCall /\ last_call'.op = "close") =>
            LET port == last_call'.port
                none == IF port = Last
                        THEN _VIEWERS = <<>>
                        ELSE BoundTo(port) = {}
            IN  /\ none => last_call'.err = "ViewerNotFoundError"
                /\ last_call'.err = "ViewerNotFoundError" =>
                        /\ none
                        /\ _VIEWERS' = _VIEWERS
                        /\ servers' = servers
                        /\ viewer_objs' = viewer_objs
      ]_vars

\* close("last") has raised ViewerNotFoundError after the only viewer opened
\* so far was closed
C10_Witness ==
    /\ last_call.op = "close"
    /\ last_call.port = Last
    /\ last_call.err = "ViewerNotFoundError"
    /\ Len(viewer_objs) = 1
    /\ _VIEWERS = <<>>
    /\ \E o \in 1..Len(servers) : servers[o].stops = 1

\* the viewers removed from the registry by the step
Closed == Range(_VIEWERS) \ Range(_VIEWERS')

\* C11 (as claimed): the registry is in the order of viewer creation, and
\* close("last") on a non-empty registry closes the most recently created
\* viewer among those registered.
C11_LastIsMostRecentlyCreated ==
    [][/\ \A i, j \in 1..Len(_VIEWERS') :
            i < j => _VIEWERS'[i] < _VIEWERS'[j]
       /\ (/\ IsCall
           /\ last_call'.op = "close"
           /\ last_call'.port = Last
           /\ _VIEWERS # <<>>) =>
                /\ last_call'.err = ""
                /\ Closed = {CHOOSE v \in Range(_VIEWERS) :
                                \A w \in Range(_VIEWERS) : w <= v}
      ]_vars

\* C11 (amended): the registry is in the order in which the viewers'
\* current servers were started, and close("last") on a non-empty registry
\* closes the viewer whose server was started last.
C11_LastIsMostRecentlyStarted ==
    [][/\ \A i, j \in 1..Len(_VIEWERS') :
            i < j => viewer_objs'[_VIEWERS'[i]]._server
                        < viewer_objs'[_VIEWERS'[j]]._server
       /\ (/\ IsCall
           /\ last_call'.op = "close"
           /\ last_call'.port = Last
           /\ _VIEWERS # <<>>) =>
                /\ last_call'.err = ""
                /\ Closed = {CHOOSE v \in Range(_VIEWERS) :
                                \A w \in Range(_VIEWERS) :
                                    viewer_objs[w]._server
                                        <= viewer_objs[v]._server}
                /\ _VIEWERS' = SubSeq(_VIEWERS, 1, Len(_VIEWERS) - 1)
      ]_vars

\* viewer 1 was shown, then viewer 2, then viewer 1 was closed and shown
\* again, and close("last") has closed viewer 1 although viewer 2 was
\* created later
C11_Witness ==
    /\ last_call.op = "close"
    /\ last_call.port = Last
    /\ last_call.err = ""
    /\ Len(servers) = 3
    /\ Len(viewer_objs) = 2
    /\ viewer_objs[2]._server = 2
    /\ servers[1].stops = 1
    /\ servers[3].stops = 1
    /\ _VIEWERS = <<2>>

\* viewer v holds a server that was started and has not been stopped
HoldsRunningServer(v) ==
    /\ viewer_objs[v]._server # None
    /\ servers[viewer_objs[v]._server].state = "running"

\* C12: between operations a viewer is in the registry exactly when it
\* holds a server that was started and not closed, and no viewer is in the
\* registry twice.
C12_RegisteredIffRunning ==
    /\ \A v \in 1..Len(viewer_objs) :
            v \in Range(_VIEWERS) <=> HoldsRunningServer(v)
    /\ Range(_VIEWERS) \subseteq 1..Len(viewer_objs)
    /\ \A i, j \in 1..Len(_VIEWERS) : i # j => _VIEWERS[i] # _VIEWERS[j]

\* one viewer is registered, another holds a server that failed to start and
\* is not registered, and a third server was stopped
C12_Witness ==
    /\ \E v \in 1..Len(viewer_objs) : v \in Range(_VIEWERS)
    /\ \E v \in 1..Len(viewer_objs) :
            /\ viewer_objs[v]._server # None
            /\ servers[viewer_objs[v]._server].state = "created"
            /\ v \notin Range(_VIEWERS)
    /\ \E o \in 1..Len(servers) : servers[o].state = "stopped"

\* C13: when the wait inside Viewer.close(wait=True) on a registered viewer
\* is interrupted, the viewer is removed from the registry, its server is
\* stopped exactly once and its port released, the viewer no longer holds
\* the server, and the interrupt is raised to the caller.
C13_InterruptedCloseStillCloses ==
    [][\A v \in 1..Len(viewer_objs) :
        (ViewerClose(v, TRUE, TRUE) /\ v \in Range(_VIEWERS)) =>
            LET sid == viewer_objs[v]._server
            IN  /\ last_call'.err = "KeyboardInterrupt"
                /\ v \notin Range(_VIEWERS')
                /\ viewer_objs'[v]._server = None
                /\ servers[sid].state = "running"
                /\ servers'[sid].state = "stopped"
                /\ servers'[sid].stops = 1
                /\ PortFree(servers', servers[sid].port)
      ]_vars

\* an interrupted Viewer.close(wait=True) has closed a viewer while another
\* viewer stays registered
C13_Witness ==
    /\ last_call.op = "Viewer.close"
    /\ last_call.wait
    /\ last_call.err = "KeyboardInterrupt"
    /\ last_call.viewer \notin Range(_VIEWERS)
    /\ viewer_objs[last_call.viewer]._server = None
    /\ _VIEWERS # <<>>

\* C14: when show fails with a bind error, the viewer is not added to the
\* registry and is not left holding the server that never started (so that
\* a later show binds afresh).
C14_BindErrorLeavesNoServer ==
    (last_call.op = "Viewer.show" /\ last_call.err = "BindError") =>
        /\ last_call.viewer \notin Range(_VIEWERS)
        /\ viewer_objs[last_call.viewer]._server = None

\* the step is a call of Viewer.show on a viewer, directly or by a call of
\* show that returned it
ShowOn(v) ==
    /\ IsCall
    /\ \/ last_call'.op = "Viewer.show"
       \/ last_call'.op = "show" /\ last_call'.err = ""
    /\ last_call'.viewer = v

\* C15: show on a viewer that already holds a server creates and starts no
\* server, and when it does not block it keeps the same server and port and
\* the registry as it is; every running server is held by exactly one
\* viewer.
C15_ShowReusesServer ==
    [][/\ \A v \in 1..Len(viewer_objs) :
            (ShowOn(v) /\ viewer_objs[v]._server # None) =>
                /\ Len(servers') = Len(servers)
                /\ \A o \in 1..Len(servers) :
                        servers'[o].state = "running"
                            => servers[o].state = "running"
                /\ (last_call'.err = "" /\ ~last_call'.wait) =>
                        /\ viewer_objs'[v]._server = viewer_objs[v]._server
                        /\ ViewerPort(After, v) = ViewerPort(Current, v)
                        /\ _VIEWERS' = _VIEWERS
       /\ \A o \in 1..Len(servers') :
            servers'[o].state = "running" =>
                Cardinality({v \in 1..Len(viewer_objs') :
                                viewer_objs'[v]._server = o}) = 1
      ]_vars

\* show has returned without blocking on a viewer that held its server
\* before the call: the viewer's server is older than another server
C15_Witness ==
    /\ last_call.op \in {"show", "Viewer.show"}
    /\ last_call.err = ""
    /\ ~last_call.wait
    /\ last_call.viewer \in Range(_VIEWERS)
    /\ viewer_objs[last_call.viewer]._server < Len(servers)

\* viewer v holds no server before the step (or is created by it)
HadNoServer(v) ==
    IF v > Len(viewer_objs) THEN TRUE ELSE viewer_objs[v]._server = None

\* C16: when show returns normally without blocking on a viewer that had no
\* server, the viewer has been appended to the registry and holds a new
\* server that is running, bound to the requested port if that is explicit.
C16_ShowBindsAndRegisters ==
    [][\A v \in 1..Len(viewer_objs') :
        (/\ ShowOn(v)
         /\ last_call'.err = ""
         /\ ~last_call'.wait
         /\ HadNoServer(v)) =>
            /\ _VIEWERS' = Append(_VIEWERS, v)
            /\ Len(servers') = Len(servers) + 1
            /\ viewer_objs'[v]._server = Len(servers')
            /\ servers'[Len(servers')].state = "running"
            /\ servers'[Len(servers')].stops = 0
            /\ servers'[Len(servers')].port \in Ports
            /\ viewer_objs'[v]._requested_port # Auto =>
                    ViewerPort(After, v) = viewer_objs'[v]._requested_port
      ]_vars

\* show has returned without blocking on a viewer with an explicit port that
\* had no server, while another viewer was registered before it
C16_Witness ==
    /\ last_call.op \in {"show", "Viewer.show"}
    /\ last_call.err = ""
    /\ ~last_call.wait
    /\ Len(_VIEWERS) = 2
    /\ _VIEWERS[2] = last_call.viewer
    /\ viewer_objs[last_call.viewer]._server = Len(servers)
    /\ viewer_objs[last_call.viewer]._requested_port # Auto
    /\ servers[Len(servers)].port
            = viewer_objs[last_call.viewer]._requested_port

\* show is to block at this call site: `wait` is True, or "auto" outside an
\* interactive session
Blocking(site) == site[1] = "True" \/ (site[1] = "auto" /\ ~site[2])

\* C17: an explicit `wait` is honored and "auto" blocks exactly outside an
\* interactive session; a show that blocks returns with the viewer closed
\* (not registered, its server stopped), a show that does not block returns
\* with the viewer registered and its server running.
C17_WaitModeHonored ==
    [][\A v \in 1..Len(viewer_objs') :
        (ShowOn(v) /\ last_call'.err = "") =>
            LET sid == IF HadNoServer(v)
                       THEN Len(servers')
                       ELSE viewer_objs[v]._server
            IN  IF Blocking(last_call'.site)
                THEN /\ v \notin Range(_VIEWERS')
                     /\ viewer_objs'[v]._server = None
                     /\ servers'[sid].state = "stopped"
                     /\ servers'[sid].stops = 1
                ELSE /\ v \in Range(_VIEWERS')
                     /\ viewer_objs'[v]._server = sid
                     /\ servers'[sid].state = "running"
      ]_vars

\* show with wait="auto" outside an interactive session has returned and
\* left the viewer closed, while another viewer is registered
C17_Witness ==
    /\ last_call.op \in {"show", "Viewer.show"}
    /\ last_call.err = ""
    /\ last_call.site = <<"auto", FALSE>>
    /\ last_call.viewer \notin Range(_VIEWERS)
    /\ viewer_objs[last_call.viewer]._server = None
    /\ _VIEWERS # <<>>

\* ---------------------------------------------------------------------
\* Properties of the viewers and their frontends (checked under
\* RefreshSpec)
\* ---------------------------------------------------------------------

\* the number of messages that channel c of server sid was sent
Received(sent, sid, c) ==
    Cardinality({i \in 1..Len(sent) :
                    sent[i].server = sid /\ c \in sent[i].to})

\* C18: Viewer.refresh on a viewer that holds a server makes exactly one
\* refresh broadcast, which sends one message to each channel connected to
\* that server and none to any other; on a viewer without a server it makes
\* no broadcast; in both cases it raises no error and leaves the registry,
\* the viewers and the servers as they were.
C18_RefreshBroadcastsOnce ==
    [][(IsCall /\ last_call'.op = "Viewer.refresh") =>
            LET sid == viewer_objs[last_call'.viewer]._server
                sent == last_call'.sent
            IN  /\ last_call'.err = ""
                /\ _VIEWERS' = _VIEWERS
                /\ viewer_objs' = viewer_objs
                /\ servers' = servers
                /\ IF sid # None
                   THEN /\ Len(sent) = 1
                        /\ \A o \in 1..Len(servers), c \in Frontends :
                            Received(sent, o, c) =
                                IF o = sid /\ c \in servers[sid].frontends
                                THEN 1 ELSE 0
                   ELSE sent = <<>>
      ]_vars

\* Viewer.refresh on a viewer with two connected channels has sent a message
\* to both, while another viewer holds no server
C18_Witness ==
    /\ last_call.op = "Viewer.refresh"
    /\ last_call.err = ""
    /\ Len(last_call.sent) = 1
    /\ Cardinality(last_call.sent[1].to) = 2
    /\ last_call.sent[1].to
            = servers[viewer_objs[last_call.viewer]._server].frontends
    /\ \E w \in 1..Len(viewer_objs) : viewer_objs[w]._server = None

\* ---------------------------------------------------------------------
\* Properties of show and close with a port (checked under ViewerSpec)
\* ---------------------------------------------------------------------

\* C19: show with an explicit port to which no registered viewer is bound,
\* on a non-empty registry, creates and returns a new viewer that requests
\* that port, and leaves every viewer that existed before, and every server,
\* as it was.
C19_ShowNewPortCreatesViewer ==
    [][(/\ IsCall
        /\ last_call'.op = "show"
        /\ last_call'.port # Auto
        /\ last_call'.err = ""
        /\ _VIEWERS # <<>>
        /\ BoundTo(last_call'.port) = {}) =>
            /\ last_call'.viewer = Len(viewer_objs) + 1
            /\ Len(viewer_objs') = Len(viewer_objs) + 1
            /\ viewer_objs'[Len(viewer_objs')]._requested_port
                    = last_call'.port
            /\ \A w \in 1..Len(viewer_objs) : viewer_objs'[w] = viewer_objs[w]
            /\ \A o \in 1..Len(servers) : servers'[o] = servers[o]
      ]_vars

\* C20: close(port) with a port to which a registered viewer is bound raises
\* no error, removes exactly that viewer from the registry, keeping the
\* order of the others, and stops its server; every other viewer and server
\* is left as it was, the registered ones still running.
C20_ClosePortClosesThatViewer ==
    [][(/\ IsCall
        /\ last_call'.op = "close"
        /\ last_call'.port # Last
        /\ BoundTo(last_call'.port) # {}) =>
            LET i == CHOOSE k \in BoundTo(last_call'.port) : TRUE
                v == _VIEWERS[i]
                sid == viewer_objs[v]._server
            IN  /\ BoundTo(last_call'.port) = {i}
                /\ last_call'.err = ""
                /\ _VIEWERS' = SubSeq(_VIEWERS, 1, i - 1)
                                \o SubSeq(_VIEWERS, i + 1, Len(_VIEWERS))
                /\ viewer_objs'[v]._server = None
                /\ servers'[sid].state = "stopped"
                /\ servers'[sid].stops = 1
                /\ \A w \in 1..Len(viewer_objs) :
                        w # v => viewer_objs'[w] = viewer_objs[w]
                /\ \A o \in 1..Len(servers) :
                        o # sid => servers'[o] = servers[o]
                /\ \A k \in 1..Len(_VIEWERS') :
                        servers'[viewer_objs'[_VIEWERS'[k]]._server].state
                            = "running"
      ]_vars

\* close(port) has closed the viewer registered first, and the viewer
\* registered after it is still registered with its server running
C20_Witness ==
    /\ last_call.op = "close"
    /\ last_call.port # Last
    /\ last_call.err = ""
    /\ Len(servers) = 2
    /\ servers[1].stops = 1
    /\ Len(_VIEWERS) = 1
    /\ viewer_objs[_VIEWERS[1]]._server = 2
    /\ servers[2].state = "running"

\* viewer v was shown and closed: it is not registered and holds no server
\* that could still be started or is running
WasClosed(v) ==
    /\ v \notin Range(_VIEWERS)
    /\ \/ viewer_objs[v]._server = None
       \/ servers[viewer_objs[v]._server].state = "stopped"

\* C22: show on a closed viewer creates a new server and leaves every
\* server that existed, the stopped ones included, as it was; it fails only
\* if the port cannot be bound or its wait is interrupted; when it returns
\* without blocking, the new server is running and held by the viewer, and
\* the viewer has been appended to the registry, where it is exactly once;
\* when it blocked, the new server has been stopped again.
C22_ShowAfterClose ==
    [][\A v \in 1..Len(viewer_objs) :
        (ShowOn(v) /\ WasClosed(v)) =>
            LET sid == Len(servers) + 1
            IN  /\ Len(servers') = sid
                /\ \A o \in 1..Len(servers) : servers'[o] = servers[o]
                /\ last_call'.err \in {"", "BindError", "KeyboardInterrupt"}
                /\ (last_call'.err = "" /\ ~last_call'.wait) =>
                        /\ _VIEWERS' = Append(_VIEWERS, v)
                        /\ Cardinality({i \in 1..Len(_VIEWERS') :
                                            _VIEWERS'[i] = v}) = 1
                        /\ viewer_objs'[v]._server = sid
                        /\ servers'[sid].state = "running"
                        /\ servers'[sid].stops = 0
                /\ (last_call'.err # "BindError" /\ last_call'.wait) =>
                        /\ v \notin Range(_VIEWERS')
                        /\ viewer_objs'[v]._server = None
                        /\ servers'[sid].state = "stopped"
                        /\ servers'[sid].stops = 1
      ]_vars

\* viewer 1 was shown, viewer 2 was shown, viewer 1 was closed and shown
\* again without blocking: it holds the third server and is registered after
\* viewer 2, and its first server is still stopped
C22_Witness ==
    /\ last_call.op = "Viewer.show"
    /\ last_call.viewer = 1
    /\ last_call.err = ""
    /\ ~last_call.wait
    /\ _VIEWERS = <<2, 1>>
    /\ viewer_objs[1]._server = 3
    /\ servers[1].state = "stopped"
    /\ servers[1].stops = 1
    /\ servers[3].state = "running"

\* ---------------------------------------------------------------------
\* Properties of overlapping calls of Viewer.close (checked under CloseSpec)
\* ---------------------------------------------------------------------

\* C21: a call of Viewer.close(wait=True) that waited while another close of
\* the same viewer ran to completion raises no error of its own when it
\* returns (an interrupt of its wait is raised again), and no server is
\* stopped more than once.
C21_OverlappingCloseIsSafe ==
    /\ \A t \in Closers :
            (closing[t].pc = "idle" /\ closing[t].overlapped) =>
                closing[t].err \in {"", "KeyboardInterrupt"}
    /\ \A o \in 1..Len(servers) : servers[o].stops <= 1

\* ---------------------------------------------------------------------
\* Properties of show and the application of the server (checked under
\* ServeSpec)
\* ---------------------------------------------------------------------

\* C23: show with neither a dataset or folder nor a dtype leaves the data
\* source of a server the viewer holds as it is, makes no assignment to the
\* application's data_source (issues, tasks and the position of the control
\* thread are unchanged) and sends no refresh; show with a dataset, a folder
\* or a dtype assigns the server's data source from the viewer's dataset (none
\* for a folder), assigns it once to the application, whose setter starts
\* _update_issues, and sends exactly one refresh.
C23_ShowWithoutDataKeepsDataSource ==
    [][\A dd \in ShowData \cup {<<None, 1>>, <<Folder, None>>} :
        ServedShow(dd[1], dd[2]) =>
            LET held == viewer_objs[Served]._server
                sid == viewer_objs'[Served]._server
                dataset == viewer_objs'[Served]._dataset_or_folder
            IN  IF dd = <<None, None>>
                THEN /\ held # None => servers' = servers
                     /\ held = None => servers'[sid].datasource = <<>>
                     /\ UNCHANGED <<data_source, issues, tasks, pc, table,
                                    nassign>>
                     /\ last_call'.sent = <<>>
                ELSE /\ dataset = IF dd[1] # None
                                  THEN dd[1]
                                  ELSE IF held = None
                                  THEN Folder
                                  ELSE viewer_objs[Served]._dataset_or_folder
                     /\ servers'[sid].datasource =
                            IF dataset = Folder THEN <<>> ELSE <<dataset>>
                     /\ data_source' = IF dataset = Folder
                                       THEN None ELSE dataset
                     /\ nassign' = nassign + 1
                     /\ pc' = "update_issues"
                     /\ UNCHANGED <<issues, tasks>>
                     /\ Len(last_call'.sent) = 1
                     /\ last_call'.sent[1].server = sid
      ]_vars

\* the served viewer was shown with a dataset, whose analysis was scheduled,
\* and then with neither dataset nor dtype: its server still serves the
\* dataset, and there has been one assignment and one task
C23_Witness ==
    /\ last_call.op = "Viewer.show"
    /\ last_call.err = ""
    /\ last_call.sent = <<>>
    /\ Served \in Range(_VIEWERS)
    /\ servers[viewer_objs[Served]._server].datasource = <<Dataset>>
    /\ data_source = Dataset
    /\ nassign = 1
    /\ Len(tasks) = 1

====
